---- MODULE Spec2Model ----
(***************************************************************************)
(* llmnrd, llmnr.c: the LLMNR responder.  The module models the hostname   *)
(* store (llmnr_set_hostname), the receive path (llmnr_recv), the query    *)
(* validator (llmnr_packet_process), the name matcher                      *)
(* (llmnr_name_matches) and the response builder (llmnr_respond) on byte   *)
(* sequences.  Buffers are sequences of octets 0..255; At(buf, i) is the   *)
(* C expression buf[i].                                                    *)
(***************************************************************************)
EXTENDS Integers, Sequences, FiniteSets, TLC

VARIABLES
    pc,              \* "start" before llmnr_init, "run" afterwards
    llmnr_hostname,  \* static char llmnr_hostname[LLMNR_LABEL_MAX_SIZE + 2]
    hostname_arg,    \* the string last passed to llmnr_set_hostname
    sockq,           \* datagrams waiting on the socket, with their IP_PKTINFO
    iface_addrs,     \* the address table of the arrival interface (iface.c)
    last,            \* the most recent call and what it did
    sent,            \* the datagrams the most recent call handed to sendto
    log              \* the message the most recent call logged

vars == <<pc, llmnr_hostname, hostname_arg, sockq, iface_addrs, last, sent, log>>

(***************************************************************************)
(* Constants of the program                                                *)
(***************************************************************************)
LLMNR_LABEL_MAX_SIZE == 63
HDR_SIZE == 12
LLMNR_F_QR == 32768
LLMNR_F_OPCODE == 30720
LLMNR_F_TC == 512
LLMNR_QTYPE_A == 1
LLMNR_QTYPE_ANY == 255
LLMNR_QCLASS_IN == 1
LLMNR_TYPE_A == 1
LLMNR_CLASS_IN == 1
LLMNR_TTL_DEFAULT == 30
AF_UNSPEC == 0
AF_INET == 2
AF_INET6 == 10
ADDRS_SIZE == 16
IN_ADDR_SIZE == 4

(***************************************************************************)
(* Bounds of the model                                                     *)
(***************************************************************************)
MaxNameLen == 2
MaxAddrs == 3
MaxTrail == 1

(***************************************************************************)
(* Octets and integer conversions                                          *)
(***************************************************************************)
At(buf, i) == buf[i + 1]

\* buf + off: the buffer seen through a pointer advanced by off octets
Ptr(buf, off) == SubSeq(buf, off + 1, Len(buf))

\* memcpy(dst, buf, n): the first n octets
Bytes(buf, n) == SubSeq(buf, 1, n)

\* htons(x) stored in memory: a 16-bit value in network byte order
BE16(x) == <<(x \div 256) % 256, x % 256>>

\* htonl(x) stored in memory
BE32(x) == <<(x \div 16777216) % 256, (x \div 65536) % 256, (x \div 256) % 256, x % 256>>

\* ntohs of the two octets at buf[off]
U16At(buf, off) == At(buf, off) * 256 + At(buf, off + 1)

RECURSIVE BitAnd(_, _)
BitAnd(a, b) ==
    IF a = 0 \/ b = 0 THEN 0
    ELSE (IF a % 2 = 1 /\ b % 2 = 1 THEN 1 ELSE 0) + 2 * BitAnd(a \div 2, b \div 2)

RECURSIVE BitOr(_, _)
BitOr(a, b) ==
    IF a = 0 THEN b
    ELSE IF b = 0 THEN a
    ELSE (IF a % 2 = 1 \/ b % 2 = 1 THEN 1 ELSE 0) + 2 * BitOr(a \div 2, b \div 2)

\* size_t arithmetic wraps.  The operands here stay below 2^12, so a wrapped
\* difference is either the difference itself or a value near the top of the
\* range; the modulus 2^30 keeps both cases apart within TLC's integers.
SizeT(x) == x % (2 ^ 30)

\* tolower() in the C locale
ToLower(c) == IF c >= 65 /\ c <= 90 THEN c + 32 ELSE c

Fill(c, n) == [i \in 1..n |-> c]

(***************************************************************************)
(* llmnr_set_hostname                                                      *)
(***************************************************************************)
\* The array after llmnr_set_hostname(hostname): the length octet is
\* strlen(hostname) converted to char, strncpy copies at most
\* LLMNR_LABEL_MAX_SIZE octets and pads with zeros, the last octet is zero.
SetHostname(hostname) ==
    [k \in 1..(LLMNR_LABEL_MAX_SIZE + 2) |->
        IF k = 1 THEN Len(hostname) % 256
        ELSE IF k - 1 <= LLMNR_LABEL_MAX_SIZE
             THEN (IF k - 1 <= Len(hostname) THEN hostname[k - 1] ELSE 0)
             ELSE 0]

(***************************************************************************)
(* llmnr_name_matches                                                      *)
(***************************************************************************)
\* strncmp: the mutation of strncasecmp that compares without folding case
RECURSIVE strncmp_nofold(_, _, _)
strncmp_nofold(s1, s2, n) ==
    IF n = 0 THEN 0
    ELSE IF At(s1, 0) # At(s2, 0) THEN At(s1, 0) - At(s2, 0)
    ELSE IF At(s1, 0) = 0 THEN 0
    ELSE strncmp_nofold(Ptr(s1, 1), Ptr(s2, 1), n - 1)

\* strncasecmp(s1, s2, n): compares at most n octets, folded to lower case,
\* and stops at a NUL the two strings share
RECURSIVE strncasecmp(_, _, _)
strncasecmp(s1, s2, n) ==
    IF n = 0 THEN 0
    ELSE IF ToLower(At(s1, 0)) # ToLower(At(s2, 0))
         THEN ToLower(At(s1, 0)) - ToLower(At(s2, 0))
    ELSE IF At(s1, 0) = 0 THEN 0
    ELSE strncasecmp(Ptr(s1, 1), Ptr(s2, 1), n - 1)

llmnr_name_matches(host, query) ==
    LET n == At(host, 0)
    IN  IF At(query, 0) # n THEN FALSE
        ELSE IF At(query, 1 + n) # 0 THEN FALSE
        ELSE strncasecmp(Ptr(query, 1), Ptr(host, 1), n) = 0

(***************************************************************************)
(* iface_addr_lookup (iface.c)                                             *)
(***************************************************************************)
\* Up to addrs_size addresses of the interface, in table order, of the
\* requested family; AF_UNSPEC asks for every family.
iface_addr_lookup(table, family, addrs_size) ==
    LET wanted == SelectSeq(table, LAMBDA a : family = AF_UNSPEC \/ a.ss_family = family)
    IN  IF Len(wanted) <= addrs_size THEN wanted ELSE SubSeq(wanted, 1, addrs_size)

(***************************************************************************)
(* llmnr_respond                                                           *)
(***************************************************************************)
\* A header written with ANCOUNT 1 whatever the number of addresses
ResponseHeaderOneAnswer(hdr, n) ==
    Bytes(hdr, 2) \o BE16(LLMNR_F_QR) \o SubSeq(hdr, 5, 6) \o BE16(1) \o <<0, 0>> \o <<0, 0>>

\* A header that keeps the query's flags and ARCOUNT and sets the QR bit
ResponseHeaderKeepFlags(hdr, n) ==
    Bytes(hdr, 2) \o BE16(BitOr(U16At(hdr, 2), LLMNR_F_QR)) \o SubSeq(hdr, 5, 6)
        \o BE16(n % 65536) \o <<0, 0>> \o SubSeq(hdr, 11, 12)

\* The LLMNR header of the response: id and qdcount copied from the query as
\* they are, flags = htons(LLMNR_F_QR), ancount = htons(n), the rest zero.
ResponseHeader(hdr, n) ==
    Bytes(hdr, 2) \o BE16(LLMNR_F_QR) \o SubSeq(hdr, 5, 6) \o BE16(n % 65536) \o <<0, 0>> \o <<0, 0>>

\* A NAME copied from the question instead of from llmnr_hostname
AnswerNameFromQuery(i, host, query, query_len) ==
    IF i = 0 THEN Bytes(query, At(query, 0) + 2)
    ELSE BE16(BitOr(49152, HDR_SIZE + query_len) % 65536)

\* NAME of the answer built for addrs[i]: llmnr_hostname for i = 0, otherwise
\* the compression pointer 0xC000 | (sizeof(*hdr) + query_len)
AnswerName(i, host, query, query_len) ==
    IF i = 0 THEN Bytes(host, At(host, 0) + 2)
    ELSE BE16(BitOr(49152, HDR_SIZE + query_len) % 65536)

\* One pass of the loop over addrs[i]: nothing for a family other than AF_INET
AnswerRecord(i, addr, host, query, query_len) ==
    IF addr.ss_family = AF_INET
    THEN AnswerName(i, host, query, query_len)
            \o BE16(LLMNR_TYPE_A) \o BE16(LLMNR_CLASS_IN) \o BE32(LLMNR_TTL_DEFAULT)
            \o BE16(IN_ADDR_SIZE) \o Bytes(addr.addr, IN_ADDR_SIZE)
    ELSE <<>>

RECURSIVE AnswerRecords(_, _, _, _, _)
AnswerRecords(i, addrs, host, query, query_len) ==
    IF i >= Len(addrs) THEN <<>>
    ELSE AnswerRecord(i, At(addrs, i), host, query, query_len)
            \o AnswerRecords(i + 1, addrs, host, query, query_len)

\* llmnr_respond: out is what is handed to sendto (no datagram or one), qread
\* is the offset in pktbuf just past the octets read as QTYPE and QCLASS
\* (0 when they are not read).
llmnr_respond(host, table, hdr, query, query_len) ==
    LET name_len == At(query, 0)
    IN  IF SizeT(query_len - name_len - 2) < 4
        THEN [out |-> <<>>, qread |-> 0]
        ELSE
          LET qtype == U16At(query, name_len + 2)
              qclass == U16At(query, name_len + 4)
              qread == HDR_SIZE + name_len + 6
          IN  IF qclass # LLMNR_QCLASS_IN
              THEN [out |-> <<>>, qread |-> qread]
              ELSE IF qtype # LLMNR_QTYPE_A /\ qtype # LLMNR_QTYPE_ANY
              THEN [out |-> <<>>, qread |-> qread]
              ELSE
                LET family == IF qtype = LLMNR_QTYPE_A THEN AF_INET ELSE AF_UNSPEC
                    addrs == iface_addr_lookup(table, family, ADDRS_SIZE)
                    n == Len(addrs)
                IN  IF n = 0
                    THEN [out |-> <<>>, qread |-> qread]
                    ELSE [out |-> << ResponseHeader(hdr, n)
                                       \o Bytes(query, query_len)
                                       \o AnswerRecords(0, addrs, host, query, query_len) >>,
                          qread |-> qread]

(***************************************************************************)
(* llmnr_packet_process                                                    *)
(***************************************************************************)
\* pktbuf holds the len octets received followed by what the buffer held
\* before.  matched is the result of llmnr_name_matches, "none" when the
\* validator returns before calling it.
llmnr_packet_process(host, table, pktbuf, len) ==
    LET none == [out |-> <<>>, qread |-> 0, matched |-> "none"]
    IN  IF len < HDR_SIZE THEN none
        ELSE
          LET flags == U16At(pktbuf, 2)
              qdcount == U16At(pktbuf, 4)
          IN  IF BitAnd(flags, LLMNR_F_QR + LLMNR_F_OPCODE + LLMNR_F_TC) # 0
                   \/ qdcount # 1
                   \/ SubSeq(pktbuf, 7, 8) # <<0, 0>>
                   \/ SubSeq(pktbuf, 9, 10) # <<0, 0>>
              THEN none
              ELSE
                LET query == Ptr(pktbuf, HDR_SIZE)
                    query_len == len - HDR_SIZE
                    name_len == At(query, 0)
                IN  IF name_len = 0 \/ name_len >= query_len
                         \/ name_len > LLMNR_LABEL_MAX_SIZE
                    THEN none
                    ELSE IF At(query, 1 + name_len) # 0 THEN none
                    ELSE IF llmnr_name_matches(host, query)
                    THEN LET r == llmnr_respond(host, table, Bytes(pktbuf, HDR_SIZE),
                                                query, query_len)
                         IN  [out |-> r.out, qread |-> r.qread, matched |-> "yes"]
                    ELSE [out |-> <<>>, qread |-> 0, matched |-> "no"]

(***************************************************************************)
(* The inputs the model draws from                                         *)
(***************************************************************************)
SeqsUpTo(S, n) == UNION {[1..k -> S] : k \in 1..n}

\* every prefix of buf of at least lo octets: a datagram cut short
Prefixes(buf, lo) == {SubSeq(buf, 1, k) : k \in lo..Len(buf)}

Name_myhost == <<109, 121, 104, 111, 115, 116>>
Name_MYHOST == <<77, 89, 72, 79, 83, 84>>

\* host names: "a", "B" and their combinations of two letters, "myhost", the
\* empty name, a name of exactly the label limit and one of one octet more
HostBytes == {97, 66}
HostArgs ==
    SeqsUpTo(HostBytes, 2)
        \cup {<<>>, Name_myhost, Fill(97, LLMNR_LABEL_MAX_SIZE), Fill(97, LLMNR_LABEL_MAX_SIZE + 1)}

\* query names: "A", "a", "b", "B" and their combinations, names with other
\* spellings of the host names, a name with an embedded NUL
QBytes == {65, 97, 98, 66}
QNames ==
    SeqsUpTo(QBytes, MaxNameLen)
        \cup {Name_MYHOST, Name_myhost, <<97, 0>>,
              Fill(65, LLMNR_LABEL_MAX_SIZE), Fill(97, LLMNR_LABEL_MAX_SIZE + 1)}

Hdr(id, flags, qd, an, ns, ar) ==
    BE16(id) \o BE16(flags) \o BE16(qd) \o BE16(an) \o BE16(ns) \o BE16(ar)

\* a plain query header, and one with the T bit set and ARCOUNT 1
Hdr0 == Hdr(4660, 0, 1, 0, 0, 0)
Hdr1 == Hdr(43981, 256, 1, 0, 0, 1)

\* headers with every flag of interest and either ARCOUNT, and headers with
\* every combination of the counts the validator looks at
Headers ==
    {Hdr(4660, f, 1, 0, 0, ar) :
        f \in {0, 256, 1024, 512, 2048, 16384, 32768}, ar \in {0, 1}}
    \cup {Hdr(4660, 0, qd, an, ns, 0) :
        qd \in {0, 1, 2, 256}, an \in {0, 1, 256}, ns \in {0, 1, 256}}

Question(name, term, qtype, qclass) ==
    <<Len(name) % 256>> \o name \o <<term>> \o BE16(qtype) \o BE16(qclass)

Trailers == {<<>>} \cup SeqsUpTo({192}, MaxTrail)

V4(last_octet) == [ss_family |-> AF_INET, addr |-> <<192, 0, 2, last_octet>>]
V6 == [ss_family |-> AF_INET6, addr |-> <<254, 128>> \o Fill(0, 13) \o <<1>>]

\* an address table with the given family in each place; the IPv4 addresses
\* are 192.0.2.5, 192.0.2.6, ... by place
AddrTable(families) ==
    [i \in 1..Len(families) |-> IF families[i] = AF_INET THEN V4(4 + i) ELSE V6]

\* the empty table, every table of up to MaxAddrs addresses of either family,
\* and IPv4 tables of exactly and of one more than ADDRS_SIZE addresses
AddrLists ==
    {<<>>} \cup {AddrTable(f) : f \in SeqsUpTo({AF_INET, AF_INET6}, MaxAddrs)}
        \cup {AddrTable(Fill(AF_INET, ADDRS_SIZE)), AddrTable(Fill(AF_INET, ADDRS_SIZE + 1))}

Scenario(payload, ifindex, addrs) ==
    [payload |-> payload, ifindex |-> ifindex, addrs |-> addrs]

\* queries for every name, on an interface with one address
ScenariosNames ==
    {Scenario(Hdr0 \o Question(q, 0, t, LLMNR_QCLASS_IN), 1, <<V4(5)>>) :
        q \in QNames, t \in {LLMNR_QTYPE_A, LLMNR_QTYPE_ANY}}

\* questions of every type and class, with and without terminator and
\* trailing octets, cut at every length from the header on
ScenariosQuestions ==
    UNION {
        {Scenario(p, 1, a) :
            p \in Prefixes(Hdr1 \o Question(<<97>>, term, qtype, qclass) \o trail, HDR_SIZE),
            a \in {<<V4(5)>>}} :
        term \in {0, 1}, qtype \in {LLMNR_QTYPE_A, LLMNR_QTYPE_ANY, 28},
        qclass \in {LLMNR_QCLASS_IN, 3}, trail \in Trailers}

\* every address table, asked for A and for ANY
ScenariosAddrs ==
    {Scenario(Hdr1 \o Question(<<97>>, 0, qtype, LLMNR_QCLASS_IN) \o trail, 1, a) :
        qtype \in {LLMNR_QTYPE_A, LLMNR_QTYPE_ANY}, trail \in Trailers, a \in AddrLists}

\* every header, and datagrams shorter than a header
ScenariosHeaders ==
    {Scenario(h \o Question(<<97>>, 0, LLMNR_QTYPE_A, LLMNR_QCLASS_IN), 1, <<V4(5)>>) :
        h \in Headers}
    \cup {Scenario(p, 1, <<V4(5)>>) :
        p \in Prefixes(Hdr0 \o Question(<<97>>, 0, LLMNR_QTYPE_A, LLMNR_QCLASS_IN), 0)}

\* length octets that disagree with the name, and the longest label cut at
\* every length
ScenariosLabels ==
    {Scenario(Hdr0 \o <<l>> \o Bytes(Question(<<97>>, 0, LLMNR_QTYPE_A, LLMNR_QCLASS_IN), 7)
                  \o <<0, 0>>, 1, <<V4(5)>>) :
        l \in {0, 1, 2, 3, 64, 200}}
    \cup {Scenario(p, 1, <<V4(5)>>) :
        p \in Prefixes(Hdr0 \o Question(Fill(65, LLMNR_LABEL_MAX_SIZE), 0,
                                        LLMNR_QTYPE_A, LLMNR_QCLASS_IN), HDR_SIZE)}

\* a datagram whose control data names no interface
ScenariosNoInterface ==
    {Scenario(Hdr0 \o Question(<<97>>, 0, LLMNR_QTYPE_A, LLMNR_QCLASS_IN), -1, <<V4(5)>>)}

Scenarios ==
    ScenariosNames \cup ScenariosQuestions \cup ScenariosAddrs \cup ScenariosHeaders
        \cup ScenariosLabels \cup ScenariosNoInterface

\* what pktbuf, an uninitialized array on the stack of llmnr_recv, can hold
\* past the octets recvmsg wrote: zeros, the tail of an earlier A/IN query,
\* or octets that are neither
StaleTails == {<<0, 0, 0, 0, 0>>, <<0, 0, 1, 0, 1>>, <<255, 255, 255, 255, 255>>}

(***************************************************************************)
(* The state machine                                                       *)
(***************************************************************************)
NoCall(op) ==
    [op |-> op, outcome |-> "none", pktbuf |-> <<>>, len |-> 0, qread |-> 0,
     matched |-> "none"]

Init ==
    /\ pc = "start"
    /\ llmnr_hostname = Fill(0, LLMNR_LABEL_MAX_SIZE + 2)
    /\ hostname_arg = <<>>
    /\ \E s \in Scenarios :
          /\ sockq = <<[payload |-> s.payload, ifindex |-> s.ifindex]>>
          /\ iface_addrs = s.addrs
    /\ last = NoCall("none")
    /\ sent = <<>>
    /\ log = "none"

llmnr_init(hostname) ==
    /\ pc = "start"
    /\ pc' = "run"
    /\ llmnr_hostname' = SetHostname(hostname)
    /\ hostname_arg' = hostname
    /\ last' = NoCall("llmnr_init")
    /\ sent' = <<>>
    /\ log' = "none"
    /\ UNCHANGED <<sockq, iface_addrs>>

llmnr_set_hostname(hostname) ==
    /\ pc = "run"
    /\ llmnr_hostname' = SetHostname(hostname)
    /\ hostname_arg' = hostname
    /\ last' = NoCall("llmnr_set_hostname")
    /\ sent' = <<>>
    /\ log' = "none"
    /\ UNCHANGED <<pc, sockq, iface_addrs>>

\* llmnr_recv when recvmsg fails: EINTR is silent, any other error is logged
llmnr_recv_failed(errno) ==
    /\ pc = "run"
    /\ last' = [NoCall("llmnr_recv") EXCEPT !.outcome = "recvmsg_failed"]
    /\ sent' = <<>>
    /\ log' = IF errno # "EINTR" THEN "Failed to receive packet" ELSE "none"
    /\ UNCHANGED <<pc, llmnr_hostname, hostname_arg, sockq, iface_addrs>>

\* llmnr_recv when recvmsg returns a datagram: stale is what pktbuf held
\* past the received octets, send_failed whether sendto returns < 0
llmnr_recv(stale, send_failed) ==
    /\ pc = "run"
    /\ sockq # <<>>
    /\ LET d == Head(sockq)
           pktbuf == d.payload \o stale
           recvlen == Len(d.payload)
       IN  IF d.ifindex >= 0
           THEN LET r == llmnr_packet_process(llmnr_hostname, iface_addrs, pktbuf, recvlen)
                IN  /\ last' = [op |-> "llmnr_recv", outcome |-> "processed",
                                pktbuf |-> pktbuf, len |-> recvlen,
                                qread |-> r.qread, matched |-> r.matched]
                    /\ sent' = r.out
                    /\ log' = IF r.out # <<>> /\ send_failed
                              THEN "Failed to send response" ELSE "none"
           ELSE /\ last' = [op |-> "llmnr_recv", outcome |-> "no_interface",
                            pktbuf |-> pktbuf, len |-> recvlen,
                            qread |-> 0, matched |-> "none"]
                /\ sent' = <<>>
                /\ log' = "Could not get interface of incoming packet"
    /\ sockq' = Tail(sockq)
    /\ UNCHANGED <<pc, llmnr_hostname, hostname_arg, iface_addrs>>

Next ==
    \/ \E hostname \in HostArgs : llmnr_init(hostname)
    \/ \E hostname \in HostArgs : llmnr_set_hostname(hostname)
    \/ \E errno \in {"EINTR", "EIO"} : llmnr_recv_failed(errno)
    \/ \E stale \in StaleTails, send_failed \in BOOLEAN : llmnr_recv(stale, send_failed)

Spec == Init /\ [][Next]_vars

(***************************************************************************)
(* Reading a received payload and a sent datagram, for the properties      *)
(***************************************************************************)
\* the most recent call was llmnr_recv and it reached llmnr_packet_process
Processed == last.op = "llmnr_recv" /\ last.outcome = "processed"

\* the octets recvmsg delivered
Payload == SubSeq(last.pktbuf, 1, last.len)

\* the 16-bit field at octet off of a message
Field16(msg, off) == msg[off + 1] * 256 + msg[off + 2]

\* the number of payload octets after the header
After == last.len - HDR_SIZE

\* the QNAME length octet of the payload (there is one when After > 0)
QLabelLen == Payload[HDR_SIZE + 1]

\* the QNAME name octets, when they lie within the payload
QNameBytes == SubSeq(Payload, HDR_SIZE + 2, HDR_SIZE + 1 + QLabelLen)

\* the header of the payload passes RFC 4795, section 2.1.1
HeaderAcceptable ==
    /\ last.len >= HDR_SIZE
    /\ Field16(Payload, 2) \div 32768 = 0
    /\ (Field16(Payload, 2) \div 2048) % 16 = 0
    /\ (Field16(Payload, 2) \div 512) % 2 = 0
    /\ Field16(Payload, 4) = 1
    /\ Field16(Payload, 6) = 0
    /\ Field16(Payload, 8) = 0

\* the QNAME is one label of 1..63 octets that lies, with its terminating
\* zero octet, within the payload
QNameFramed ==
    /\ After > 0
    /\ QLabelLen >= 1
    /\ QLabelLen <= 63
    /\ QLabelLen + 2 <= After
    /\ Payload[HDR_SIZE + QLabelLen + 2] = 0

\* the payload holds the whole question: QNAME, QTYPE and QCLASS
QuestionComplete == QNameFramed /\ QLabelLen + 6 <= After

QType == Field16(Payload, HDR_SIZE + QLabelLen + 2)
QClass == Field16(Payload, HDR_SIZE + QLabelLen + 4)

\* ASCII case folding, stated on upper case
Upper(c) == IF c >= 97 /\ c <= 122 THEN c - 32 ELSE c

SameNameIgnoringCase(a, b) ==
    /\ Len(a) = Len(b)
    /\ \A i \in 1..Len(a) : Upper(a[i]) = Upper(b[i])

\* the resource records of msg from octet off on; a record that does not fit
\* is reported with type -1
RECURSIVE ParseRecords(_, _)
ParseRecords(msg, off) ==
    IF off >= Len(msg) THEN <<>>
    ELSE
      LET name_size == IF msg[off + 1] >= 192 THEN 2 ELSE msg[off + 1] + 2
          fixed == off + name_size
      IN  IF fixed + 10 > Len(msg)
             \/ fixed + 10 + Field16(msg, fixed + 8) > Len(msg)
          THEN << [off |-> off, name |-> <<>>, type |-> -1, class |-> -1,
                   ttl |-> -1, rdlength |-> -1, rdata |-> <<>>] >>
          ELSE << [off |-> off,
                   name |-> SubSeq(msg, off + 1, fixed),
                   type |-> Field16(msg, fixed),
                   class |-> Field16(msg, fixed + 2),
                   ttl |-> Field16(msg, fixed + 4) * 65536 + Field16(msg, fixed + 6),
                   rdlength |-> Field16(msg, fixed + 8),
                   rdata |-> SubSeq(msg, fixed + 11, fixed + 10 + Field16(msg, fixed + 8))] >>
               \o ParseRecords(msg, fixed + 10 + Field16(msg, fixed + 8))

IsIPv4Record(r) == r.type = 1 /\ r.class = 1 /\ r.rdlength = 4

\* the answer records of a response to the payload: they follow the header
\* and the octets llmnr_respond copied from the query
Answers(msg) == ParseRecords(msg, last.len)

\* the addresses of the arrival interface that a question of type qtype asks for
AddressCount(qtype) ==
    Cardinality({i \in 1..Len(iface_addrs) :
        qtype = 255 \/ iface_addrs[i].ss_family = AF_INET})

Min(a, b) == IF a <= b THEN a ELSE b

(***************************************************************************)
(* C1                                                                      *)
(***************************************************************************)
\* what C1 lists: a short payload, a header the validator refuses, a QNAME
\* length octet that is 0, >= the octets after the header or > 63, or no zero
\* octet in the payload right after the QNAME octets
C1_Rejectable ==
    \/ ~HeaderAcceptable
    \/ After = 0
    \/ QLabelLen = 0
    \/ QLabelLen >= After
    \/ QLabelLen > 63
    \/ QLabelLen + 2 > After
    \/ Payload[HDR_SIZE + QLabelLen + 2] # 0

\* C1: llmnr_packet_process sends no response to a datagram that is shorter
\* than the header, has QR, a non-zero opcode or TC set, has QDCOUNT # 1,
\* ANCOUNT # 0 or NSCOUNT # 0, has a QNAME length octet that is 0, too large
\* or > 63, or has no zero octet in the payload right after the QNAME.
C1_NoResponseToInvalidQuery ==
    (Processed /\ C1_Rejectable) => sent = <<>>

\* Every case of C1 other than the QNAME that ends with the payload does hold:
\* when the octet after the QNAME lies within the payload, a rejectable
\* datagram gets no response.
C1_HoldsWhenTerminatorInPayload ==
    (Processed /\ C1_Rejectable /\ ~(HeaderAcceptable /\ After > 0 /\ QLabelLen + 1 = After))
        => sent = <<>>

(***************************************************************************)
(* C2                                                                      *)
(***************************************************************************)
\* C2: for a configured hostname of 1..63 octets and a validated QNAME,
\* llmnr_name_matches returns true if and only if the QNAME's length octet
\* equals the hostname's length and the name octets are equal under ASCII
\* case-insensitive comparison.
C2_MatchIffSameNameIgnoringCase ==
    (/\ Processed
     /\ Len(hostname_arg) >= 1
     /\ Len(hostname_arg) <= 63
     /\ HeaderAcceptable
     /\ QNameFramed)
        => last.matched =
              (IF SameNameIgnoringCase(QNameBytes, hostname_arg) THEN "yes" ELSE "no")

\* a QNAME spelled differently from the hostname was matched
C2_Witness ==
    /\ Processed
    /\ Len(hostname_arg) >= 1
    /\ HeaderAcceptable
    /\ QNameFramed
    /\ last.matched = "yes"
    /\ QNameBytes # hostname_arg

(***************************************************************************)
(* C3                                                                      *)
(***************************************************************************)
\* a valid query of type A or ANY and class IN for the configured hostname
C3_ValidMatchingQuery ==
    /\ Processed
    /\ Len(hostname_arg) >= 1
    /\ Len(hostname_arg) <= 63
    /\ HeaderAcceptable
    /\ QuestionComplete
    /\ SameNameIgnoringCase(QNameBytes, hostname_arg)
    /\ QType \in {1, 255}
    /\ QClass = 1

\* C3: for a valid, matching query of type ANY or A and class IN, with N the
\* number of addresses of the arrival interface for the requested family,
\* exactly one response is sent if N > 0 and none if N = 0, and the ANCOUNT
\* of the response is min(N, 16).
C3_OneResponseWithAncountMinN16 ==
    C3_ValidMatchingQuery =>
        IF AddressCount(QType) = 0
        THEN sent = <<>>
        ELSE /\ Len(sent) = 1
             /\ Field16(sent[1], 6) = Min(AddressCount(QType), 16)

\* a response to a query on an interface with more than 16 addresses
C3_Witness ==
    /\ C3_ValidMatchingQuery
    /\ AddressCount(QType) > 16
    /\ Len(sent) = 1

(***************************************************************************)
(* C4                                                                      *)
(***************************************************************************)
\* C4: in every response sent, ANCOUNT equals the number of answer records
\* in the datagram and every record is an IPv4 record (TYPE 1, CLASS 1,
\* RDLENGTH 4), for A and ANY queries and every address list, including a
\* list for an ANY request that holds non-IPv4 entries.
C4_AncountEqualsRecordsSent ==
    (Processed /\ sent # <<>>) =>
        /\ Field16(sent[1], 6) = Len(Answers(sent[1]))
        /\ \A k \in 1..Len(Answers(sent[1])) : IsIPv4Record(Answers(sent[1])[k])

(***************************************************************************)
(* C5                                                                      *)
(***************************************************************************)
\* C5: in every response sent, the ID equals the query's ID, FLAGS has the QR
\* bit set and every other bit zero, QDCOUNT equals the query's QDCOUNT, and
\* NSCOUNT and ARCOUNT are 0.
C5_ResponseHeaderEchoesQuery ==
    (Processed /\ sent # <<>>) =>
        /\ SubSeq(sent[1], 1, 2) = SubSeq(Payload, 1, 2)
        /\ SubSeq(sent[1], 3, 4) = <<128, 0>>
        /\ SubSeq(sent[1], 5, 6) = SubSeq(Payload, 5, 6)
        /\ SubSeq(sent[1], 9, 12) = <<0, 0, 0, 0>>

\* a response to a query that had another flag bit set and ARCOUNT # 0
C5_Witness ==
    /\ Processed
    /\ sent # <<>>
    /\ Field16(Payload, 2) # 0
    /\ Field16(Payload, 10) # 0
    /\ Field16(Payload, 0) # 0

(***************************************************************************)
(* C6                                                                      *)
(***************************************************************************)
\* hostname "myhost", QNAME 0x06 "MYHOST" 0x00, QTYPE ANY, QCLASS IN, one
\* IPv4 address 192.0.2.5 on the interface
C6_Scenario ==
    /\ Processed
    /\ hostname_arg = Name_myhost
    /\ HeaderAcceptable
    /\ Payload = SubSeq(Payload, 1, HDR_SIZE) \o <<6>> \o Name_MYHOST \o <<0, 0, 255, 0, 1>>
    /\ iface_addrs = <<[ss_family |-> AF_INET, addr |-> <<192, 0, 2, 5>>]>>

\* the octets of the answer record after its NAME: TYPE 1, CLASS 1, the
\* default TTL, RDLENGTH 4, RDATA 192.0.2.5
C6_RecordTail == <<0, 1, 0, 1>> \o BE32(LLMNR_TTL_DEFAULT) \o <<0, 4>> \o <<192, 0, 2, 5>>

\* C6 as stated: one response with ANCOUNT 1 and one answer record whose NAME
\* is 0x06 "MYHOST" 0x00, the QNAME as received.
C6_AnswerNameIsQNameAsReceived ==
    C6_Scenario =>
        /\ Len(sent) = 1
        /\ Field16(sent[1], 6) = 1
        /\ SubSeq(sent[1], 25, Len(sent[1])) = <<6>> \o Name_MYHOST \o <<0>> \o C6_RecordTail

\* C6 as amended: one response with ANCOUNT 1, the question echoed as
\* received, and one answer record whose NAME is the stored hostname label
\* 0x06 "myhost" 0x00, in the spelling the hostname was configured with.
C6_AnswerNameIsStoredLabel ==
    C6_Scenario =>
        /\ Len(sent) = 1
        /\ Field16(sent[1], 6) = 1
        /\ SubSeq(sent[1], 13, 24) = SubSeq(Payload, 13, 24)
        /\ SubSeq(sent[1], 25, Len(sent[1])) = <<6>> \o Name_myhost \o <<0>> \o C6_RecordTail

\* the scenario was processed and answered
C6_Witness == C6_Scenario /\ Len(sent) = 1

(***************************************************************************)
(* C7                                                                      *)
(***************************************************************************)
\* C7: after llmnr_set_hostname(name) for any name, the stored label has a
\* length octet between 1 and 63, followed by that many octets of the name
\* and then a zero octet.  (Stated here for the non-empty names.)
C7_StoredLabelWellFormed ==
    (pc = "run" /\ hostname_arg # <<>>) =>
        /\ llmnr_hostname[1] >= 1
        /\ llmnr_hostname[1] <= 63
        /\ SubSeq(llmnr_hostname, 2, llmnr_hostname[1] + 1)
              = SubSeq(hostname_arg, 1, llmnr_hostname[1])
        /\ llmnr_hostname[llmnr_hostname[1] + 2] = 0

\* For names of 1..63 octets the stored label is well formed.
C7_HoldsUpToLabelLimit ==
    (pc = "run" /\ Len(hostname_arg) >= 1 /\ Len(hostname_arg) <= 63) =>
        /\ llmnr_hostname[1] = Len(hostname_arg)
        /\ SubSeq(llmnr_hostname, 2, llmnr_hostname[1] + 1) = hostname_arg
        /\ llmnr_hostname[llmnr_hostname[1] + 2] = 0

(***************************************************************************)
(* C8                                                                      *)
(***************************************************************************)
\* C8: no response is sent when fewer than 4 payload octets follow the
\* QNAME's terminating zero octet, whatever the payload length, and QTYPE and
\* QCLASS are only read from octets inside the received payload.
C8_NoResponseToTruncatedQuestion ==
    Processed =>
        /\ last.qread <= last.len
        /\ (After > 0 /\ After - (QLabelLen + 2) < 4) => sent = <<>>

\* When the payload holds the QNAME's terminating octet, a question with
\* fewer than 4 octets after it gets no response and is not read.
C8_HoldsWhenTerminatorInPayload ==
    (Processed /\ After > 0 /\ QLabelLen + 2 <= After /\ After - (QLabelLen + 2) < 4)
        => (sent = <<>> /\ last.qread = 0)

(***************************************************************************)
(* C9                                                                      *)
(***************************************************************************)
\* the octets of msg at off are one label of 1..63 octets spelling name under
\* case folding, followed by a zero octet
FullNameAt(msg, off, name) ==
    /\ off + 2 + Len(name) <= Len(msg)
    /\ msg[off + 1] = Len(name)
    /\ SameNameIgnoringCase(SubSeq(msg, off + 2, off + 1 + Len(name)), name)
    /\ msg[off + 2 + Len(name)] = 0

\* C9: in a response with two or more answer records, the NAME of each record
\* after the first is a 2-octet pointer with the top two bits set whose
\* offset is 12 plus the length of the question octets received, and a full
\* length-prefixed encoding of the queried name begins at that offset.
C9_PointerTargetsFullName ==
    (Processed /\ sent # <<>> /\ Len(Answers(sent[1])) >= 2) =>
        \A k \in 2..Len(Answers(sent[1])) :
            LET name == Answers(sent[1])[k].name
            IN  /\ Len(name) = 2
                /\ name[1] >= 192
                /\ (name[1] - 192) * 256 + name[2] = HDR_SIZE + After
                /\ FullNameAt(sent[1], HDR_SIZE + After, QNameBytes)

\* When the first address of the list is an IPv4 address, the pointers do
\* target the full name written for the first record.
C9_HoldsWhenFirstAddressIsIPv4 ==
    (Processed /\ sent # <<>> /\ Len(Answers(sent[1])) >= 2
        /\ iface_addrs[1].ss_family = AF_INET) =>
        \A k \in 2..Len(Answers(sent[1])) :
            LET name == Answers(sent[1])[k].name
            IN  /\ Len(name) = 2
                /\ name[1] >= 192
                /\ (name[1] - 192) * 256 + name[2] = HDR_SIZE + After
                /\ FullNameAt(sent[1], HDR_SIZE + After, QNameBytes)

(***************************************************************************)
(* C10                                                                     *)
(***************************************************************************)
\* C10: in every response, the octets between the header and the first answer
\* record are exactly QNAME + QTYPE + QCLASS as received, so the first answer
\* record starts at offset 12 + (QNAME length + 2) + 4, also when the
\* datagram carries more octets after QCLASS.  (Stated here for payloads
\* that hold the whole question and interfaces with IPv4 addresses only.)
C10_QuestionEchoedExactly ==
    (/\ Processed
     /\ sent # <<>>
     /\ QuestionComplete
     /\ \A i \in 1..Len(iface_addrs) : iface_addrs[i].ss_family = AF_INET) =>
        LET first == HDR_SIZE + QLabelLen + 6
            records == ParseRecords(sent[1], first)
        IN  /\ SubSeq(sent[1], HDR_SIZE + 1, first) = SubSeq(Payload, HDR_SIZE + 1, first)
            /\ records # <<>>
            /\ \A k \in 1..Len(records) : IsIPv4Record(records[k])

\* Without octets after QCLASS the echoed question is exact.
C10_HoldsWithoutTrailingOctets ==
    (/\ Processed
     /\ sent # <<>>
     /\ QuestionComplete
     /\ After = QLabelLen + 6
     /\ \A i \in 1..Len(iface_addrs) : iface_addrs[i].ss_family = AF_INET) =>
        LET first == HDR_SIZE + QLabelLen + 6
            records == ParseRecords(sent[1], first)
        IN  /\ SubSeq(sent[1], HDR_SIZE + 1, first) = SubSeq(Payload, HDR_SIZE + 1, first)
            /\ records # <<>>
            /\ \A k \in 1..Len(records) : IsIPv4Record(records[k])

====
